---- MODULE Spec2Model ----
(***************************************************************************)
(* Model of the record store of Lanaya, src-tauri/src/core/database.rs:    *)
(* the SQLite table `record` and the operations of SqliteDB on it.         *)
(*                                                                         *)
(* One SQL statement is one atomic step of the engine.  The sequential     *)
(* specifications run a whole method as one action; SpecConc runs the      *)
(* statements of insert_if_not_exist of two callers interleaved, and       *)
(* SpecToggle those of mark_favorite.                                      *)
(***************************************************************************)
EXTENDS Integers, Sequences, FiniteSets, TLC

VARIABLES record, seq, issued, budget, last, proc

vars == <<record, seq, issued, budget, last, proc>>

----------------------------------------------------------------------------
(* Bounds of the exploration.                                              *)

\* number of rows a behaviour may insert
MaxId == 2
\* wall-clock readings are 1..MaxTime
MaxTime == 2
\* delete_over_limit is called with limit in 0..MaxLimit
MaxLimit == 1

(* Program constants.                                                      *)

\* database.rs:196  `if count < 50 + limit`
Slack == 50
\* database.rs:194-195  column_count() of "SELECT count(*) FROM record"
ColumnCount == 1
\* database.rs:152  `let mut limit: usize = 300;`
DefaultLimit == 300

Times == 1..MaxTime
Limits == 0..MaxLimit
DataTypes == {"text", "image"}
\* contents are strings, kept as sequences of characters
InputContents == {<<"a">>, <<"b">>}
\* ids a caller may pass to mark_favorite: existing and non-existing ones
IdInputs == 0..(MaxId + 1)
Procs == {1, 2}

----------------------------------------------------------------------------
(* Helpers.                                                                *)

SetMax(S) == CHOOSE x \in S : \A y \in S : y <= x

\* string_util::md5: a deterministic digest of the content.  The digest is
\* a value of its own kind; distinct contents of the model have distinct
\* digests.
Md5(content) == [digest |-> content]

\* rusqlite ToSql for bool: INTEGER 0 / 1
BoolToSql(b) == IF b THEN 1 ELSE 0

\* rusqlite FromSql for bool: any non-zero INTEGER is true
SqlToBool(i) == i # 0

\* the Record a caller passes in; id, md5 and create_time of the argument
\* are never read by insert_record / insert_if_not_exist
Record(content, data_type, is_favorite) ==
    [content |-> content, data_type |-> data_type, is_favorite |-> is_favorite]

Ids(tbl) == {r.id : r \in tbl}

RowsByMd5(tbl, md5) == {r \in tbl : r.md5 = md5}

RowsById(tbl, id) == {r \in tbl : r.id = id}

----------------------------------------------------------------------------
(* The SQL statements.                                                     *)

\* INTEGER PRIMARY KEY without AUTOINCREMENT: one more than the largest
\* rowid now in the table
NextRowidNoAutoincrement(tbl, sq) ==
    IF tbl = {} THEN 1 ELSE SetMax(Ids(tbl)) + 1

\* INTEGER PRIMARY KEY AUTOINCREMENT: one more than the largest rowid that
\* ever was in the table (sqlite_sequence)
NextRowid(tbl, sq) ==
    SetMax(Ids(tbl) \cup {sq}) + 1

NewRow(tbl, sq, r, now) ==
    [id          |-> NextRowid(tbl, sq),
     content     |-> r.content,
     data_type   |-> r.data_type,
     md5         |-> Md5(r.content),
     create_time |-> now,
     is_favorite |-> BoolToSql(r.is_favorite)]

\* an insert that would skip a row whose md5 is already stored
InsertRowIfAbsent(tbl, sq, r, now) ==
    IF RowsByMd5(tbl, Md5(r.content)) # {} THEN tbl
    ELSE tbl \cup {NewRow(tbl, sq, r, now)}

\* "insert into record (content,md5,create_time,is_favorite,data_type) ..."
InsertRow(tbl, sq, r, now) ==
    tbl \cup {NewRow(tbl, sq, r, now)}

\* rusqlite::Error::QueryReturnedNoRows from query_row
NotFound == [ok |-> FALSE, err |-> "QueryReturnedNoRows", id |-> 0]

\* any other rusqlite::Error of the statement
EngineFailure == [ok |-> FALSE, err |-> "SqliteFailure", id |-> 0]

\* a lookup whose where clause would never match a stored digest
FindRecordByMd5NoMatch(tbl, md5, readFails) ==
    IF readFails THEN {EngineFailure} ELSE {NotFound}

\* find_record_by_md5: query_row gives the first row of the result; the
\* statement has no ORDER BY, so with several matching rows any of them may
\* be that first row.  Only the id is read from the row.
FindRecordByMd5(tbl, md5, readFails) ==
    IF readFails THEN {EngineFailure}
    ELSE IF RowsByMd5(tbl, md5) = {} THEN {NotFound}
    ELSE {[ok |-> TRUE, err |-> "", id |-> r.id] : r \in RowsByMd5(tbl, md5)}

\* an update that would leave create_time as it was
UpdateNothing(tbl, id, now) == tbl

\* an update that would lack its where clause
UpdateEveryCreateTime(tbl, id, now) ==
    {[r EXCEPT !.create_time = now] : r \in tbl}

\* an update that would also reset the data_type of the row
UpdateCreateTimeAndType(tbl, id, now) ==
    {IF r.id = id THEN [r EXCEPT !.create_time = now, !.data_type = ""] ELSE r :
        r \in tbl}

\* "update record set create_time = ?2 where id = ?1"
UpdateRecordCreateTime(tbl, id, now) ==
    {IF r.id = id THEN [r EXCEPT !.create_time = now] ELSE r : r \in tbl}

NoRow == [id |-> 0, content |-> <<>>, data_type |-> "", md5 |-> Md5(<<>>),
          create_time |-> 0, is_favorite |-> 0]

\* a lookup that would hand back a default record for a missing id
FindByIdOrDefault(tbl, id, readFails) ==
    IF readFails THEN [ok |-> FALSE, row |-> NoRow]
    ELSE IF RowsById(tbl, id) = {} THEN [ok |-> TRUE, row |-> NoRow]
    ELSE [ok |-> TRUE, row |-> CHOOSE r \in RowsById(tbl, id) : TRUE]

\* find_by_id: the row with that id (id is the primary key), or an error
FindById(tbl, id, readFails) ==
    IF readFails \/ RowsById(tbl, id) = {} THEN [ok |-> FALSE, row |-> NoRow]
    ELSE [ok |-> TRUE, row |-> CHOOSE r \in RowsById(tbl, id) : TRUE]

\* a "toggle" that would write back the flag it read
UntoggledFavorite(row) == row.is_favorite

\* a "toggle" that would always set the flag
AlwaysFavorite(row) == 1

\* database.rs:122  `if record.is_favorite { 0 } else { 1 }`
ToggledFavorite(row) == IF SqlToBool(row.is_favorite) THEN 0 ELSE 1

\* "update record set is_favorite = ?2 where id = ?1"
UpdateFavorite(tbl, id, value) ==
    {IF r.id = id THEN [r EXCEPT !.is_favorite = value] ELSE r : r \in tbl}

\* an early return that would forget the slack of 50
ReturnsEarlyNoSlack(count, limit) == count < limit

\* database.rs:196  `if count < 50 + limit { return Ok(()) }`
ReturnsEarly(count, limit) == count < Slack + limit

\* "DELETE FROM record WHERE id IN (SELECT id FROM record ORDER BY id DESC
\*  LIMIT ?1, 1000000000)": every row but the `limit` rows of highest id
DeleteBeyondLimit(tbl, limit) ==
    {r \in tbl : Cardinality({s \in tbl : s.id > r.id}) < limit}

----------------------------------------------------------------------------
(* The queries.                                                            *)

\* Option<String>, Option<usize>, Option<bool> of QueryReq and of Record
NoKey == [some |-> FALSE, val |-> <<>>]
NoLimit == [some |-> FALSE, val |-> 0]
NoFavorite == [some |-> FALSE, val |-> FALSE]
Some(x) == [some |-> TRUE, val |-> x]

\* string_util::highlight(key, content): the content with the occurrences
\* of the key marked; a value that the two arguments determine
Highlight(key, content) == <<key, content>>

\* the Record a query builds from a row
ToRecord(row, highlight) ==
    [id |-> row.id, content |-> row.content, data_type |-> row.data_type,
     md5 |-> row.md5, create_time |-> row.create_time,
     is_favorite |-> SqlToBool(row.is_favorite), content_highlight |-> highlight]

\* find_record_by_md5 fills in the id alone: `..Default::default()`
DefaultRecord == 
    [id |-> 0, content |-> <<>>, data_type |-> "", md5 |-> <<>>, create_time |-> 0,
     is_favorite |-> FALSE, content_highlight |-> NoKey]

\* a count that would ask for more than one row
Md5IsExistTwice(tbl, md5) == Cardinality(RowsByMd5(tbl, md5)) > 1

\* md5_is_exist: "SELECT count(*) FROM record WHERE md5 = ?1", count > 0
Md5IsExist(tbl, md5) == Cardinality(RowsByMd5(tbl, md5)) > 0

\* the orders a set of rows can be listed in
Perms(S) ==
    {p \in [1..Cardinality(S) -> S] : \A i, j \in 1..Cardinality(S) : p[i] = p[j] => i = j}

\* the ids of the rows that share their create_time with another row
Tied(rows) ==
    {r.id : r \in {r \in rows : \E s \in rows :
                      s.create_time = r.create_time /\ s.id # r.id}}

Index(p, id) == CHOOSE i \in 1..Len(p) : p[i] = id

\* the first n rows of a ranking: pairs <<k, row>> say that k rows come
\* before the row
Ranked(pairs, n) == [i \in 1..n |-> (CHOOSE pr \in pairs : pr[1] = i - 1)[2]]

\* an ordering that would put the oldest rows first
OrderAscending(rows, n) ==
    {Ranked({<<Cardinality({s \in rows :
                    \/ s.create_time < r.create_time
                    \/ /\ s.create_time = r.create_time
                       /\ s.id # r.id
                       /\ Index(p, s.id) < Index(p, r.id)}), r>> : r \in rows}, n) :
        p \in Perms(Tied(rows))}

\* "order by create_time desc limit n": the first n rows by decreasing
\* create_time.  The statement does not say how rows of equal create_time
\* are ordered among themselves, so every order of them is a possible
\* result.  n is at most the number of rows.
OrderByCreateTimeDesc(rows, n) ==
    {Ranked({<<Cardinality({s \in rows :
                    \/ s.create_time > r.create_time
                    \/ /\ s.create_time = r.create_time
                       /\ s.id # r.id
                       /\ Index(p, s.id) < Index(p, r.id)}), r>> : r \in rows}, n) :
        p \in Perms(Tied(rows))}

\* a query that would keep the where clause of find_by_key
FindAllText(tbl) ==
    {[i \in 1..Len(o) |-> ToRecord(o[i], NoKey)] :
        o \in OrderByCreateTimeDesc({r \in tbl : r.data_type = "text"},
                                    Cardinality({r \in tbl : r.data_type = "text"}))}

\* find_all: every row, "order by create_time desc", content_highlight None
FindAll(tbl) ==
    {[i \in 1..Len(o) |-> ToRecord(o[i], NoKey)] :
        o \in OrderByCreateTimeDesc(tbl, Cardinality(tbl))}

\* SQLite's LIKE compares ASCII letters without regard to case
Lower(c) == IF c = "A" THEN "a" ELSE IF c = "B" THEN "b" ELSE c

\* SQLite's LIKE without an ESCAPE clause: % matches any run of characters,
\* _ matches any one character
RECURSIVE Like(_, _)
Like(pattern, text) ==
    IF pattern = <<>> THEN text = <<>>
    ELSE IF Head(pattern) = "%"
    THEN Like(Tail(pattern), text) \/ (text # <<>> /\ Like(pattern, Tail(text)))
    ELSE /\ text # <<>>
         /\ (Head(pattern) = "_" \/ Lower(Head(pattern)) = Lower(Head(text)))
         /\ Like(Tail(pattern), Tail(text))

\* a limit that would ignore the one of the request
EffectiveLimitIgnored(req) == DefaultLimit

\* database.rs:152-156  the limit of the request, or 300
EffectiveLimit(req) == IF req.limit.some THEN req.limit.val ELSE DefaultLimit

\* the where clause of find_by_key: data_type='text', and content like
\* '%key%' and is_favorite = 0/1 when the request has them
Matches(tbl, req) ==
    {r \in tbl :
        /\ r.data_type = "text"
        /\ req.key.some => Like(<<"%">> \o req.key.val \o <<"%">>, r.content)
        /\ req.is_favorite.some => r.is_favorite = BoolToSql(req.is_favorite.val)}

Min(a, b) == IF a < b THEN a ELSE b

\* a query that would lack its order by clause: any rows, in any order
FindByKeyUnordered(tbl, req) ==
    LET n == Min(EffectiveLimit(req), Cardinality(Matches(tbl, req)))
    IN  {[i \in 1..n |-> ToRecord(p[i],
                IF req.key.some THEN Some(Highlight(req.key.val, p[i].content))
                ELSE NoKey)] : p \in Perms(Matches(tbl, req))}

\* find_by_key: the matching rows "order by create_time desc limit ?1";
\* data_type is set to "text", content_highlight only with a key
FindByKey(tbl, req) ==
    LET n == Min(EffectiveLimit(req), Cardinality(Matches(tbl, req)))
    IN  {[i \in 1..n |->
            [ToRecord(o[i],
                IF req.key.some THEN Some(Highlight(req.key.val, o[i].content))
                ELSE NoKey) EXCEPT !.data_type = "text"]] :
         o \in OrderByCreateTimeDesc(Matches(tbl, req), n)}

----------------------------------------------------------------------------
(* State after SqliteDB::init on a new file: an empty table.               *)

\* `last` is the most recent call of the sequential caller: its arguments
\* (content, data_type, is_favorite, id, limit), the clock it read (now),
\* whether the engine failed its read or its write, the row its lookup
\* matched as that row was stored before the call (found), the branch it
\* took, its result (res) and the rowid it returned (ret).  `repeat` says
\* that the call before it was the same successful mark_favorite(id).
\* For a query: its request (req; md5_is_exist and find_record_by_md5 are
\* asked for the digest of `content`), the records or the boolean it
\* returned (out, exists), and whether the call before it was a clear_data
\* that found rows to delete (cleared).  For clear_data: the number of rows
\* the store held (removed).
NoCall == [op |-> "none", content |-> <<>>, data_type |-> "", is_favorite |-> FALSE,
           id |-> 0, limit |-> 0, now |-> 0, readFails |-> FALSE, writeFails |-> FALSE,
           found |-> NoRow, branch |-> "none", res |-> "none", ret |-> 0,
           repeat |-> FALSE,
           req |-> [key |-> NoKey, limit |-> NoLimit, is_favorite |-> NoFavorite],
           out |-> <<>>, exists |-> FALSE, removed |-> 0, cleared |-> FALSE]

\* a caller of SpecConc: its position in insert_if_not_exist, the argument
\* r and the result of its find_record_by_md5
Idle == [pc |-> "idle", r |-> Record(<<>>, "", FALSE), found |-> NotFound,
         res |-> "none"]

Init ==
    /\ record = {}
    /\ seq = 0
    /\ issued = <<>>
    /\ budget = MaxId
    /\ last = NoCall
    /\ proc = [p \in Procs |-> Idle]

\* A data file left by earlier runs: n rows, inserted one by one with the
\* contents "a", "aa", "aaa", ... (create table if not exists keeps them)
BulkRow(i) ==
    [id |-> i, content |-> [k \in 1..i |-> "a"], data_type |-> "text",
     md5 |-> Md5([k \in 1..i |-> "a"]), create_time |-> 1, is_favorite |-> 0]

BulkSizes == (Slack - 1)..(Slack + MaxLimit + 1)

InitEvict ==
    /\ \E n \in BulkSizes :
          /\ record = {BulkRow(i) : i \in 1..n}
          /\ seq = n
          /\ issued = [i \in 1..n |-> i]
    /\ budget = MaxId
    /\ last = NoCall
    /\ proc = [p \in Procs |-> Idle]

----------------------------------------------------------------------------
(* The methods of SqliteDB, each run as one step by a single caller.       *)

\* insert_record(r)
InsertRecord(r, now, writeFails) ==
    /\ budget > 0
    /\ IF writeFails
       THEN /\ UNCHANGED <<record, seq, issued, budget>>
            /\ last' = [NoCall EXCEPT !.op = "insert_record", !.content = r.content,
                           !.data_type = r.data_type, !.is_favorite = r.is_favorite,
                           !.now = now, !.writeFails = TRUE, !.res = "Err"]
       ELSE /\ record' = InsertRow(record, seq, r, now)
            /\ seq' = NextRowid(record, seq)
            /\ issued' = Append(issued, NextRowid(record, seq))
            /\ budget' = budget - 1
            /\ last' = [NoCall EXCEPT !.op = "insert_record", !.content = r.content,
                           !.data_type = r.data_type, !.is_favorite = r.is_favorite,
                           !.now = now, !.branch = "insert", !.res = "Ok",
                           !.ret = NextRowid(record, seq)]
    /\ UNCHANGED proc

\* insert_if_not_exist(r): Ok(res) of the lookup touches, any Err inserts
InsertIfNotExist(r, now, readFails, writeFails) ==
    \E f \in FindRecordByMd5(record, Md5(r.content), readFails) :
        LET call == [NoCall EXCEPT !.op = "insert_if_not_exist", !.content = r.content,
                        !.data_type = r.data_type, !.is_favorite = r.is_favorite,
                        !.now = now, !.readFails = readFails,
                        !.writeFails = writeFails, !.id = f.id,
                        !.found = IF f.ok THEN CHOOSE s \in RowsById(record, f.id) : TRUE
                                  ELSE NoRow]
        IN  /\ f.ok \/ budget > 0
            /\ IF writeFails
               THEN /\ UNCHANGED <<record, seq, issued, budget>>
                    /\ last' = [call EXCEPT !.res = "Err"]
               ELSE IF f.ok
               THEN /\ record' = UpdateRecordCreateTime(record, f.id, now)
                    /\ UNCHANGED <<seq, issued, budget>>
                    /\ last' = [call EXCEPT !.branch = "touch", !.res = "Ok"]
               ELSE /\ record' = InsertRow(record, seq, r, now)
                    /\ seq' = NextRowid(record, seq)
                    /\ issued' = Append(issued, NextRowid(record, seq))
                    /\ budget' = budget - 1
                    /\ last' = [call EXCEPT !.branch = "insert", !.res = "Ok"]
            /\ UNCHANGED proc

\* a clear_data that would spare the favorites
ClearDataKeepFavorites ==
    /\ record' = {r \in record : r.is_favorite = 1}
    /\ last' = [NoCall EXCEPT !.op = "clear_data", !.res = "Ok",
                   !.removed = Cardinality(record)]
    /\ UNCHANGED <<seq, issued, budget, proc>>

\* clear_data(): "delete from record"
ClearData ==
    /\ record' = {}
    /\ last' = [NoCall EXCEPT !.op = "clear_data", !.res = "Ok",
                   !.removed = Cardinality(record)]
    /\ UNCHANGED <<seq, issued, budget, proc>>

\* mark_favorite(id)
MarkFavorite(id, readFails) ==
    LET f == FindById(record, id, readFails)
        call == [NoCall EXCEPT !.op = "mark_favorite", !.id = id,
                    !.readFails = readFails, !.found = f.row,
                    !.repeat = (last.op = "mark_favorite" /\ last.res = "Ok"
                                  /\ last.id = id)]
    IN  /\ IF f.ok
           THEN /\ record' = UpdateFavorite(record, id, ToggledFavorite(f.row))
                /\ last' = [call EXCEPT !.res = "Ok"]
           ELSE /\ UNCHANGED record
                /\ last' = [call EXCEPT !.res = "Err"]
        /\ UNCHANGED <<seq, issued, budget, proc>>

\* delete_over_limit(limit): `count` is the number of columns of the
\* prepared count(*) statement, not the number of rows
DeleteOverLimit(limit) ==
    LET count == ColumnCount
    IN  /\ record' = IF ReturnsEarly(count, limit) THEN record
                     ELSE DeleteBeyondLimit(record, limit)
        /\ last' = [NoCall EXCEPT !.op = "delete_over_limit", !.limit = limit,
                       !.res = "Ok"]
        /\ UNCHANGED <<seq, issued, budget, proc>>

\* md5_is_exist(md5) with the digest of `content`
Md5IsExistCall(content) ==
    /\ last' = [NoCall EXCEPT !.op = "md5_is_exist", !.content = content,
                   !.exists = Md5IsExist(record, Md5(content)), !.res = "Ok",
                   !.cleared = (last.op = "clear_data" /\ last.removed > 0)]
    /\ UNCHANGED <<record, seq, issued, budget, proc>>

\* find_record_by_md5(md5) with the digest of `content`
FindRecordByMd5Call(content) ==
    /\ \E f \in FindRecordByMd5(record, Md5(content), FALSE) :
          last' = [NoCall EXCEPT !.op = "find_record_by_md5", !.content = content,
                      !.res = IF f.ok THEN "Ok" ELSE "Err",
                      !.out = IF f.ok THEN <<[DefaultRecord EXCEPT !.id = f.id]>>
                              ELSE <<>>]
    /\ UNCHANGED <<record, seq, issued, budget, proc>>

\* find_all()
FindAllCall ==
    /\ \E o \in FindAll(record) :
          last' = [NoCall EXCEPT !.op = "find_all", !.out = o, !.res = "Ok",
                      !.cleared = (last.op = "clear_data" /\ last.removed > 0)]
    /\ UNCHANGED <<record, seq, issued, budget, proc>>

\* find_by_key(req)
FindByKeyCall(req) ==
    /\ \E o \in FindByKey(record, req) :
          last' = [NoCall EXCEPT !.op = "find_by_key", !.req = req, !.out = o,
                      !.res = "Ok"]
    /\ UNCHANGED <<record, seq, issued, budget, proc>>

----------------------------------------------------------------------------
(* Two callers, each on its own connection (SqliteDB::new), running        *)
(* insert_if_not_exist statement by statement.                             *)

\* the call is made
Begin(p, r) ==
    /\ proc[p].pc = "idle"
    /\ proc' = [proc EXCEPT ![p] = [pc |-> "lookup", r |-> r, found |-> NotFound,
                                    res |-> "none"]]
    /\ UNCHANGED <<record, seq, issued, budget, last>>

\* database.rs:94  self.find_record_by_md5(md5)
Lookup(p) ==
    /\ proc[p].pc = "lookup"
    /\ \E f \in FindRecordByMd5(record, Md5(proc[p].r.content), FALSE) :
          proc' = [proc EXCEPT ![p].pc = "write", ![p].found = f]
    /\ UNCHANGED <<record, seq, issued, budget, last>>

\* database.rs:95-100  the update or the insert the match arm runs
Write(p, now) ==
    /\ proc[p].pc = "write"
    /\ proc[p].found.ok \/ budget > 0
    /\ IF proc[p].found.ok
       THEN /\ record' = UpdateRecordCreateTime(record, proc[p].found.id, now)
            /\ UNCHANGED <<seq, issued, budget>>
       ELSE /\ record' = InsertRow(record, seq, proc[p].r, now)
            /\ seq' = NextRowid(record, seq)
            /\ issued' = Append(issued, NextRowid(record, seq))
            /\ budget' = budget - 1
    /\ proc' = [proc EXCEPT ![p].pc = "idle", ![p].res = "Ok"]
    /\ UNCHANGED last

----------------------------------------------------------------------------
(* Two callers, each on its own connection, running mark_favorite          *)
(* statement by statement, one call each.                                  *)

\* a caller of SpecToggle: its position in mark_favorite, the argument id,
\* the result of its find_by_id, and the is_favorite the row of that id had
\* when the call was made (base; 0 without such a row)
Waiting == [pc |-> "idle", id |-> 0, found |-> [ok |-> FALSE, row |-> NoRow],
            base |-> 0, res |-> "none"]

\* the call is made
MarkBegin(p, id) ==
    /\ proc[p].pc = "idle"
    /\ proc' = [proc EXCEPT ![p] =
                  [Waiting EXCEPT !.pc = "find", !.id = id,
                                  !.base = IF RowsById(record, id) = {} THEN 0
                                           ELSE FindById(record, id, FALSE).row.is_favorite]]
    /\ UNCHANGED <<record, seq, issued, budget, last>>

\* database.rs:120  let record = self.find_by_id(id)?;
MarkFind(p) ==
    LET f == FindById(record, proc[p].id, FALSE)
    IN  /\ proc[p].pc = "find"
        /\ proc' = IF f.ok
                   THEN [proc EXCEPT ![p].pc = "update", ![p].found = f]
                   ELSE [proc EXCEPT ![p].pc = "done", ![p].res = "Err"]
        /\ UNCHANGED <<record, seq, issued, budget, last>>

\* database.rs:121-124  the update with the flag computed from the read
MarkUpdate(p) ==
    /\ proc[p].pc = "update"
    /\ record' = UpdateFavorite(record, proc[p].id, ToggledFavorite(proc[p].found.row))
    /\ proc' = [proc EXCEPT ![p].pc = "done", ![p].res = "Ok"]
    /\ UNCHANGED <<seq, issued, budget, last>>

\* A data file left by earlier runs: 1..MaxId rows, favorite or not
InitToggle ==
    /\ \E n \in 1..MaxId : \E fav \in [1..n -> 0..1] :
          /\ record = {[BulkRow(i) EXCEPT !.is_favorite = fav[i]] : i \in 1..n}
          /\ seq = n
          /\ issued = [i \in 1..n |-> i]
    /\ budget = MaxId
    /\ last = NoCall
    /\ proc = [p \in Procs |-> Waiting]

----------------------------------------------------------------------------
(* Specifications.                                                         *)

Records == {Record(c, d, f) : c \in InputContents, d \in DataTypes, f \in BOOLEAN}

\* arguments of the calls on the large store and of the concurrent callers
TextRecords == {Record(c, "text", f) : c \in InputContents, f \in BOOLEAN}

\* sequential use of insert_if_not_exist, mark_favorite, delete_over_limit
\* and clear_data on an engine that does not fail
Next ==
    \/ \E r \in Records, now \in Times : InsertIfNotExist(r, now, FALSE, FALSE)
    \/ \E id \in IdInputs : MarkFavorite(id, FALSE)
    \/ \E limit \in Limits : DeleteOverLimit(limit)
    \/ ClearData

Spec == Init /\ [][Next]_vars

\* the same calls on a store that already holds about Slack rows; "a" is
\* the content of the row of id 1 there, "b" is new
NextEvict ==
    \/ \E r \in TextRecords, now \in Times : InsertIfNotExist(r, now, FALSE, FALSE)
    \/ \E id \in 0..1 : MarkFavorite(id, FALSE)
    \/ \E limit \in Limits : DeleteOverLimit(limit)
    \/ ClearData

SpecEvict == InitEvict /\ [][NextEvict]_vars

\* sequential use of every public writing method, insert_record included
NextAll ==
    \/ \E r \in TextRecords, now \in Times : InsertIfNotExist(r, now, FALSE, FALSE)
    \/ \E r \in TextRecords, now \in Times : InsertRecord(r, now, FALSE)
    \/ \E id \in IdInputs : MarkFavorite(id, FALSE)
    \/ \E limit \in Limits : DeleteOverLimit(limit)
    \/ ClearData

SpecAll == Init /\ [][NextAll]_vars

\* the same calls on an engine whose statements may fail
NextFault ==
    \/ \E r \in Records, now \in Times, rf \in BOOLEAN, wf \in BOOLEAN :
          InsertIfNotExist(r, now, rf, wf)
    \/ \E id \in IdInputs, rf \in BOOLEAN : MarkFavorite(id, rf)
    \/ \E limit \in Limits : DeleteOverLimit(limit)
    \/ ClearData
    \/ \E r \in Records, now \in Times, wf \in BOOLEAN : InsertRecord(r, now, wf)

SpecFault == Init /\ [][NextFault]_vars

\* contents of the calls of SpecRead: "B" differs from "b" by case only
ReadContents == {<<"a">>, <<"a", "b">>, <<"B">>}

\* "a" and "ab" are texts, favorite or not; "B" is an image
ReadRecords ==
    {Record(c, "text", f) : c \in {<<"a">>, <<"a", "b">>}, f \in BOOLEAN}
        \cup {Record(<<"B">>, "image", FALSE)}

\* sequential use of the writing methods and of the queries without a
\* where clause of their own
NextRead ==
    \/ \E r \in ReadRecords, now \in Times : InsertIfNotExist(r, now, FALSE, FALSE)
    \/ \E id \in IdInputs : MarkFavorite(id, FALSE)
    \/ \E limit \in Limits : DeleteOverLimit(limit)
    \/ ClearData
    \/ \E c \in ReadContents : Md5IsExistCall(c)
    \/ \E c \in ReadContents : FindRecordByMd5Call(c)
    \/ FindAllCall

SpecRead == Init /\ [][NextRead]_vars

\* keys of find_by_key: "_" and "%" are the wildcards of LIKE, "b" differs
\* from the "B" of the stored "aB" by case only
Keys == {NoKey, Some(<<"a">>), Some(<<"b">>), Some(<<"_">>), Some(<<"%">>)}

Requests ==
    {[key |-> k, limit |-> l, is_favorite |-> f] :
        k \in Keys,
        l \in {NoLimit} \cup {Some(n) : n \in Limits},
        f \in {NoFavorite, Some(TRUE), Some(FALSE)}}

\* the texts "a" and "aB"; mark_favorite makes the favorites
SearchRecords == {Record(c, "text", FALSE) : c \in {<<"a">>, <<"a", "B">>}}

\* find_by_key on a store that insert_if_not_exist and mark_favorite fill
NextSearch ==
    \/ \E r \in SearchRecords, now \in Times : InsertIfNotExist(r, now, FALSE, FALSE)
    \/ \E id \in IdInputs : MarkFavorite(id, FALSE)
    \/ \E req \in Requests : FindByKeyCall(req)

SpecSearch == Init /\ [][NextSearch]_vars

\* A data file left by earlier runs that holds more texts than the default
\* limit: LargeSize rows inserted one by one, one per clock reading, the
\* content of row i being i written with the digits "a" (0) and "b" (1);
\* every hundredth row is an image.
LargeSize == DefaultLimit + 4

LargeContent(i) ==
    [k \in 1..9 |-> IF (i \div (2 ^ (k - 1))) % 2 = 1 THEN "b" ELSE "a"]

LargeRow(i) ==
    [id |-> i, content |-> LargeContent(i),
     data_type |-> IF i % 100 = 0 THEN "image" ELSE "text",
     md5 |-> Md5(LargeContent(i)), create_time |-> i, is_favorite |-> 0]

InitLarge ==
    /\ record = {LargeRow(i) : i \in 1..LargeSize}
    /\ seq = LargeSize
    /\ issued = [i \in 1..LargeSize |-> i]
    /\ budget = MaxId
    /\ last = NoCall
    /\ proc = [p \in Procs |-> Idle]

\* the oldest and the newest rows, an image, and an id that is not there
LargeIds == {0, 1, 100, LargeSize - 1, LargeSize}

LargeRequests ==
    {[key |-> NoKey, limit |-> l, is_favorite |-> f] :
        l \in {NoLimit, Some(MaxLimit)},
        f \in {NoFavorite, Some(TRUE)}}

\* find_by_key and mark_favorite on the large store
NextLarge ==
    \/ \E id \in LargeIds : MarkFavorite(id, FALSE)
    \/ \E req \in LargeRequests : FindByKeyCall(req)

SpecLarge == InitLarge /\ [][NextLarge]_vars

\* two concurrent callers of insert_if_not_exist
NextConc ==
    \/ \E p \in Procs, r \in TextRecords : Begin(p, r)
    \/ \E p \in Procs : Lookup(p)
    \/ \E p \in Procs, now \in Times : Write(p, now)

SpecConc == Init /\ [][NextConc]_vars

\* two concurrent callers of mark_favorite
NextToggle ==
    \/ \E p \in Procs, id \in IdInputs : MarkBegin(p, id)
    \/ \E p \in Procs : MarkFind(p)
    \/ \E p \in Procs : MarkUpdate(p)

SpecToggle == InitToggle /\ [][NextToggle]_vars

----------------------------------------------------------------------------
(* Properties.                                                             *)

\* the `n` rows of highest id of a table
HighestIds(tbl, n) == {r \in tbl : Cardinality({s \in tbl : s.id > r.id}) < n}

\* C1: delete_over_limit(limit) on a store of limit + 50 or more rows leaves
\* exactly `limit` rows, the ones of highest id, whatever their create_time.
C1_EvictKeepsHighestIds ==
    [][(last'.op = "delete_over_limit" /\ Cardinality(record) >= last'.limit + Slack)
          => (/\ Cardinality(record') = last'.limit
              /\ record' = HighestIds(record, last'.limit))]_vars

\* C2: at most one row per md5 in every state, and after an
\* insert_if_not_exist that returned Ok exactly one row carries the md5 of
\* its content.
C2_OneRowPerMd5 ==
    /\ \A r \in record, s \in record : r.md5 = s.md5 => r = s
    /\ (last.op = "insert_if_not_exist" /\ last.res = "Ok")
          => Cardinality(RowsByMd5(record, Md5(last.content))) = 1

\* a second insert_if_not_exist of a stored content returned Ok while
\* another content is stored too
C2_Witness ==
    /\ last.op = "insert_if_not_exist"
    /\ last.res = "Ok"
    /\ last.branch = "touch"
    /\ Cardinality(record) = 2
    /\ Cardinality(RowsByMd5(record, Md5(last.content))) = 1

\* C3: when two concurrent callers of insert_if_not_exist with the same
\* content both got not-found from their lookup and both completed, two
\* rows carry the md5 of that content.
C3_BothInsert ==
    \A p \in Procs, q \in Procs :
        (/\ p # q
         /\ proc[p].pc = "idle" /\ proc[p].res = "Ok"
         /\ proc[q].pc = "idle" /\ proc[q].res = "Ok"
         /\ proc[p].r.content = proc[q].r.content
         /\ ~proc[p].found.ok /\ ~proc[q].found.ok)
            => Cardinality(RowsByMd5(record, Md5(proc[p].r.content))) >= 2

\* both callers passed the same new content, both lookups reported
\* not-found, both calls returned, and the table holds two rows of one md5
C3_Witness ==
    /\ proc[1].pc = "idle" /\ proc[1].res = "Ok" /\ ~proc[1].found.ok
    /\ proc[2].pc = "idle" /\ proc[2].res = "Ok" /\ ~proc[2].found.ok
    /\ proc[1].r.content = proc[2].r.content
    /\ \E r \in record, s \in record : r.id # s.id /\ r.md5 = s.md5

\* C4: insert_if_not_exist of a content whose md5 is stored adds no row,
\* keeps id, content, data_type, md5 and is_favorite of the matching row, and
\* leaves every other row as it was.
C4_TouchFrame ==
    [][(last'.op = "insert_if_not_exist"
          /\ RowsByMd5(record, Md5(last'.content)) # {})
          => (/\ Cardinality(record') = Cardinality(record)
              /\ \A r \in record :
                    \E s \in record' :
                        /\ s.id = r.id
                        /\ s.content = r.content
                        /\ s.data_type = r.data_type
                        /\ s.md5 = r.md5
                        /\ s.is_favorite = r.is_favorite
                        /\ (r.md5 # Md5(last'.content) => s = r))]_vars

\* a duplicate call passed another data_type and another is_favorite than
\* the matching row stores, next to a second row
C4_Witness ==
    /\ last.op = "insert_if_not_exist"
    /\ last.branch = "touch"
    /\ Cardinality(record) = 2
    /\ \E r \in RowsByMd5(record, Md5(last.content)) :
          /\ r.data_type # last.data_type
          /\ SqlToBool(r.is_favorite) # last.is_favorite

\* C5: after insert_if_not_exist of a stored content, the one row of that
\* content has the create_time read by this call.
C5_TouchSetsTime ==
    (last.op = "insert_if_not_exist" /\ last.branch = "touch")
        => /\ Cardinality(RowsByMd5(record, Md5(last.content))) = 1
           /\ \A r \in RowsByMd5(record, Md5(last.content)) :
                  r.create_time = last.now

\* the second call read another clock value than the first call stored
C5_Witness ==
    /\ last.op = "insert_if_not_exist"
    /\ last.branch = "touch"
    /\ last.found.create_time # last.now
    /\ \E r \in record : r.id = last.found.id /\ r.create_time = last.now

\* C6: delete_over_limit(limit) on a store of at most limit + 49 rows leaves
\* the table as it was.
C6_NoEvictionWithinSlack ==
    [][(last'.op = "delete_over_limit"
          /\ Cardinality(record) <= last'.limit + Slack - 1)
          => record' = record]_vars

\* delete_over_limit(limit) returned on a store of exactly limit + 49 rows
C6_Witness ==
    /\ last.op = "delete_over_limit"
    /\ last.res = "Ok"
    /\ Cardinality(record) = last.limit + Slack - 1

\* C7: ids are unique, every id handed out is greater than all handed out
\* before (also after rows were removed), the first is 1, and insert_record
\* returns the id of the row it wrote.
C7_IdsNeverReused ==
    /\ \A r \in record, s \in record : r.id = s.id => r = s
    /\ \A i \in 1..Len(issued), j \in 1..Len(issued) : i < j => issued[i] < issued[j]
    /\ Ids(record) \subseteq {issued[i] : i \in 1..Len(issued)}
    /\ issued # <<>> => issued[1] = 1
    /\ (last.op = "insert_record" /\ last.res = "Ok")
          => /\ last.ret = issued[Len(issued)]
             /\ \E r \in record : r.id = last.ret /\ r.content = last.content

\* insert_record wrote into a table emptied by clear_data and returned 2
C7_Witness ==
    /\ last.op = "insert_record"
    /\ last.res = "Ok"
    /\ last.ret = 2
    /\ Ids(record) = {2}

\* C8: a successful mark_favorite(id) flips is_favorite of that row and
\* changes nothing else, and the second of two successive mark_favorite(id)
\* leaves the row as the first one found it.
C8_ToggleTwice ==
    [][(last'.op = "mark_favorite" /\ last'.res = "Ok")
          => (/\ Cardinality(record') = Cardinality(record)
              /\ \A r \in record :
                    IF r.id = last'.id
                    THEN [r EXCEPT !.is_favorite = 1 - r.is_favorite] \in record'
                    ELSE r \in record'
              /\ (last.op = "mark_favorite" /\ last.res = "Ok" /\ last.id = last'.id)
                    => last.found \in record')]_vars

\* the second of two successive successful mark_favorite(id), next to
\* another row
C8_Witness ==
    /\ last.op = "mark_favorite"
    /\ last.res = "Ok"
    /\ last.repeat
    /\ Cardinality(record) = 2

\* C9: mark_favorite(id) with an id no row has returns an error and leaves
\* the table as it was.
C9_MissingIdIsError ==
    [][(last'.op = "mark_favorite" /\ last'.id \notin Ids(record))
          => (last'.res = "Err" /\ record' = record)]_vars

\* mark_favorite failed on a non-empty table that has no row of that id
C9_Witness ==
    /\ last.op = "mark_favorite"
    /\ last.res = "Err"
    /\ record # {}
    /\ last.id \notin Ids(record)

\* C10: when the lookup inside insert_if_not_exist fails, the call returns
\* an error and the table is unchanged; a row is inserted only when no row
\* has that md5.
C10_ReadFailureSurfaced ==
    [][(last'.op = "insert_if_not_exist")
          => (/\ last'.readFails => (last'.res = "Err" /\ record' = record)
              /\ last'.branch = "insert"
                    => RowsByMd5(record, Md5(last'.content)) = {})]_vars

\* C11: md5_is_exist(h) is true exactly when some stored row has md5 h: it
\* is false for every digest while nothing has been inserted, true for the
\* digest of x after a successful insert_if_not_exist(x), and false for
\* every digest after clear_data.
C11_ExistsIffStored ==
    /\ [](/\ \A c \in ReadContents :
                Md5IsExist(record, Md5(c)) <=> (\E r \in record : r.md5 = Md5(c))
          /\ last.op = "md5_is_exist"
                => (last.exists <=> (\E r \in record : r.md5 = Md5(last.content)))
          /\ issued = <<>> => \A c \in ReadContents : ~Md5IsExist(record, Md5(c)))
    /\ [][/\ (last'.op = "insert_if_not_exist" /\ last'.res = "Ok")
                => Md5IsExist(record', Md5(last'.content))
          /\ last'.op = "clear_data"
                => \A c \in ReadContents : ~Md5IsExist(record', Md5(c))
          /\ (last'.op = "md5_is_exist" /\ last.op = "insert_if_not_exist"
                /\ last.res = "Ok" /\ last'.content = last.content)
                => last'.exists
          /\ (last'.op = "md5_is_exist" /\ last.op = "clear_data")
                => ~last'.exists]_vars

\* md5_is_exist answered true for a stored content while another content of
\* the inputs is not stored
C11_Witness ==
    /\ last.op = "md5_is_exist"
    /\ last.exists
    /\ \E c \in ReadContents : ~Md5IsExist(record, Md5(c))

\* C12: find_by_key returns only rows stored as text (never an image),
\* only rows whose is_favorite equals the filter when the request has one,
\* and at most `limit` records: the limit of the request, or 300 without.
C12_SearchTextFavoriteLimit ==
    last.op = "find_by_key"
        => /\ \A i \in 1..Len(last.out) :
                 /\ last.out[i].data_type = "text"
                 /\ \E r \in record :
                       /\ r.id = last.out[i].id
                       /\ r.data_type = "text"
                       /\ last.req.is_favorite.some
                             => SqlToBool(r.is_favorite) = last.req.is_favorite.val
                 /\ last.req.is_favorite.some
                       => last.out[i].is_favorite = last.req.is_favorite.val
           /\ Len(last.out) <= IF last.req.limit.some THEN last.req.limit.val
                               ELSE DefaultLimit

\* a request without limit on a store that holds images and more than 300
\* texts: 300 records came back
C12_Witness ==
    /\ last.op = "find_by_key"
    /\ ~last.req.limit.some
    /\ Len(last.out) = DefaultLimit
    /\ Cardinality({r \in record : r.data_type = "text"}) > DefaultLimit
    /\ \E r \in record : r.data_type = "image"

\* C13: find_all returns every stored row, of every data type, exactly
\* once, with the stored values, in non-increasing create_time order, and
\* with content_highlight absent on each record.
C13_ListAll ==
    last.op = "find_all"
        => /\ Len(last.out) = Cardinality(record)
           /\ \A r \in record : \E i \in 1..Len(last.out) :
                 /\ last.out[i].id = r.id
                 /\ last.out[i].content = r.content
                 /\ last.out[i].data_type = r.data_type
                 /\ last.out[i].md5 = r.md5
                 /\ last.out[i].create_time = r.create_time
                 /\ last.out[i].is_favorite = (r.is_favorite = 1)
           /\ \A i, j \in 1..Len(last.out) :
                 /\ last.out[i].id = last.out[j].id => i = j
                 /\ i < j => last.out[i].create_time >= last.out[j].create_time
           /\ \A i \in 1..Len(last.out) : ~last.out[i].content_highlight.some

\* find_all listed an image and a text of different create_time
C13_Witness ==
    /\ last.op = "find_all"
    /\ Len(last.out) >= 2
    /\ last.out[1].create_time > last.out[2].create_time
    /\ \E i, j \in 1..Len(last.out) :
          last.out[i].data_type = "image" /\ last.out[j].data_type = "text"

\* C14: clear_data deletes every row, whatever the store holds: a find_all
\* called right after it returns the empty sequence, and md5_is_exist is
\* false for every digest.
C14_ClearRemovesAll ==
    [][/\ last'.op = "clear_data"
             => (/\ record' = {}
                 /\ \A c \in ReadContents : ~Md5IsExist(record', Md5(c)))
       /\ (last.op = "clear_data" /\ last'.op = "find_all") => last'.out = <<>>
       /\ (last.op = "clear_data" /\ last'.op = "md5_is_exist") => ~last'.exists]_vars

\* find_all returned nothing right after a clear_data that found rows, in a
\* store that has held two rows or more
C14_Witness ==
    /\ last.op = "find_all"
    /\ last.cleared
    /\ last.out = <<>>
    /\ \E i \in 1..Len(issued) : issued[i] >= 2

\* C15: while a row of a given id exists, its content, data_type and md5
\* never change; its create_time changes only by the touch of an
\* insert_if_not_exist of its content, its is_favorite only by a
\* mark_favorite of its id.
C15_WriteOnceFields ==
    [][\A r \in record, s \in record' :
          r.id = s.id
             => /\ s.content = r.content
                /\ s.data_type = r.data_type
                /\ s.md5 = r.md5
                /\ s.create_time # r.create_time
                      => /\ last'.op = "insert_if_not_exist"
                         /\ last'.branch = "touch"
                         /\ r.md5 = Md5(last'.content)
                /\ s.is_favorite # r.is_favorite
                      => (last'.op = "mark_favorite" /\ last'.id = r.id)]_vars

\* a touch gave a new create_time to a favorite row that kept its content,
\* next to another row
C15_Witness ==
    /\ last.op = "insert_if_not_exist"
    /\ last.branch = "touch"
    /\ last.found.is_favorite = 1
    /\ Cardinality(record) = 2
    /\ \E r \in record :
          /\ r.id = last.found.id
          /\ r.create_time # last.found.create_time
          /\ r.content = last.found.content
          /\ r.is_favorite = 1

\* C16: the records find_by_key returns are in non-increasing create_time
\* order and are the most recent matches: no row that satisfies the filters
\* of the request and is left out has a create_time greater than that of a
\* returned record.
C16_SearchMostRecentFirst ==
    last.op = "find_by_key"
        => /\ \A i, j \in 1..Len(last.out) :
                 i < j => last.out[i].create_time >= last.out[j].create_time
           /\ \A r \in record :
                 (/\ r.data_type = "text"
                  /\ last.req.is_favorite.some
                        => SqlToBool(r.is_favorite) = last.req.is_favorite.val
                  /\ last.req.key.some
                        => Like(<<"%">> \o last.req.key.val \o <<"%">>, r.content)
                  /\ \A i \in 1..Len(last.out) : last.out[i].id # r.id)
                    => \A i \in 1..Len(last.out) :
                          r.create_time <= last.out[i].create_time

\* a request with limit 1 returned the newer of two matching rows of
\* different create_time
C16_Witness ==
    /\ last.op = "find_by_key"
    /\ last.req.limit = Some(1)
    /\ Len(last.out) = 1
    /\ \E r \in Matches(record, last.req) :
          r.id # last.out[1].id /\ r.create_time < last.out[1].create_time

\* C17: find_record_by_md5(h) on a store that holds a row of md5 h returns
\* that row with id, content, data_type, create_time, is_favorite and md5
\* equal to the stored values and content_highlight absent; with no such
\* row it returns an error.
C17_FindByHashReturnsStored ==
    last.op = "find_record_by_md5"
        => IF \E r \in record : r.md5 = Md5(last.content)
           THEN /\ last.res = "Ok"
                /\ Len(last.out) = 1
                /\ \E r \in record :
                      /\ r.md5 = Md5(last.content)
                      /\ last.out[1].id = r.id
                      /\ last.out[1].content = r.content
                      /\ last.out[1].data_type = r.data_type
                      /\ last.out[1].create_time = r.create_time
                      /\ last.out[1].is_favorite = (r.is_favorite = 1)
                      /\ last.out[1].md5 = r.md5
                      /\ ~last.out[1].content_highlight.some
           ELSE last.res = "Err"

\* k occurs in c as a run of consecutive characters
Contains(k, c) ==
    \E i \in 0..(Len(c) - Len(k)) : SubSeq(c, i + 1, i + Len(k)) = k

\* C18: find_by_key with a key k returns only records whose content
\* contains k as a substring, also when k holds the characters % or _.
C18_SearchKeyIsSubstring ==
    (last.op = "find_by_key" /\ last.req.key.some)
        => \A i \in 1..Len(last.out) :
              Contains(last.req.key.val, last.out[i].content)

BothToggled(p, q) ==
    /\ p # q
    /\ proc[p].pc = "done" /\ proc[p].res = "Ok"
    /\ proc[q].pc = "done" /\ proc[q].res = "Ok"
    /\ proc[p].id = proc[q].id
    /\ proc[p].base = proc[q].base

\* C20 as claimed: two concurrent mark_favorite calls on the same existing
\* id leave is_favorite of the row equal to its original value, in every
\* interleaving of their reads and writes.
C20_ConcurrentTogglesCancel ==
    \A p \in Procs, q \in Procs :
        BothToggled(p, q)
            => \A r \in RowsById(record, proc[p].id) : r.is_favorite = proc[p].base

\* C20: two concurrent mark_favorite calls on the same existing id leave
\* is_favorite equal to its original value exactly when one call read after
\* the other wrote, so that the two calls read different values; when both
\* read before either wrote, both write the same value and the flag ends
\* flipped once.
C20_ToggleLostIffBothReadFirst ==
    \A p \in Procs, q \in Procs :
        BothToggled(p, q)
            => \A r \in RowsById(record, proc[p].id) :
                  (r.is_favorite = proc[p].base)
                     <=> (proc[p].found.row.is_favorite # proc[q].found.row.is_favorite)

\* both calls read the same flag and the row ended with the other one
C20_Witness ==
    \E p \in Procs, q \in Procs :
        /\ BothToggled(p, q)
        /\ proc[p].found.row.is_favorite = proc[q].found.row.is_favorite
        /\ \E r \in RowsById(record, proc[p].id) : r.is_favorite # proc[p].base

====
